---- MODULE Spec2Model ----
(***************************************************************************)
(* Met lightning geo location platform                                     *)
(* (homeassistant/components/met/geo_location.py).                         *)
(*                                                                         *)
(* MetLightningEventManager polls the provider, diffs the fetched strike   *)
(* identifiers against _managed_strike_ids, broadcasts a delete signal for *)
(* every identifier that dropped out and hands one batch of new            *)
(* MetLightningEvent entities to the host.  Each entity subscribes to its  *)
(* own delete signal when the host attaches it.                            *)
(*                                                                         *)
(* All coroutines and callbacks run on one event loop: a cycle can be      *)
(* suspended only at the await of line 109, so the steps of lines 113-123  *)
(* of one cycle are never interleaved with any other task.                 *)
(***************************************************************************)
EXTENDS Integers, Sequences, FiniteSets, Bags, TLC

\* ---------------------------------------------------------------- bounds
NumIds == 2
MaxCycles == 3

StrikeIds == 1..NumIds
Cycles == 1..MaxCycles

\* ------------------------------------------------------------ input sets
\* configured CONF_RADIUS values
Radii == {-1, 0, 1}

\* the ways a response spreads the raw distances over its strikes
Spreads == {0}
RawDistance(i, k) == IF (i + k) % 2 = 0 THEN 500 ELSE 12345

\* one provider response: mapping identifier -> strike
Responses ==
    {[i \in S |-> [distance |-> RawDistance(i, k)]] :
        S \in SUBSET StrikeIds, k \in Spreads}

EmptyMap == [x \in {} |-> 0]

VARIABLES
    radius,          \* entry.data[CONF_RADIUS]
    setup,           \* position of async_setup_entry / async_init
    timer,           \* TRUE once async_track_time_interval was called
    torn,            \* TRUE once the host has torn the platform down
    managed,         \* self._managed_strike_ids
    strikes,         \* self._strikes
    pc,              \* position of every async_update invocation
    cur,             \* the invocation that runs between its await and its end
    new_strike_ids,  \* local of async_update (line 113)
    ids_to_remove,   \* local of async_update (line 115)
    todo,            \* identifiers the loop of _remove_events has yet to send
    ids_to_create,   \* local of async_update (line 119)
    sent,            \* delete signals broadcast by the cycle cur
    calls,           \* batches passed to async_add_entities by the cycle cur
    known0,          \* _managed_strike_ids when the cycle cur resumed
    swapped,         \* TRUE once the cycle cur executed line 123
    prev,            \* how the cycle processed before cur ended
    sameResp,        \* the response of cur equals the snapshot it replaced
    last,            \* how the cycle processed last ended
    lastFetch,       \* response of the last fetch that succeeded
    lastOkIds,       \* identifiers fetched by the last cycle that returned normally
    entities         \* MetLightningEvent objects alive in the host

mgrVars == <<managed, strikes>>
setupVars == <<radius, setup, timer, torn>>
localVars == <<new_strike_ids, ids_to_remove, todo, ids_to_create>>
traceVars == <<sent, calls, known0, swapped, prev, sameResp>>
histVars == <<last, lastFetch, lastOkIds>>
vars == <<radius, setup, timer, torn, managed, strikes, pc, cur,
          new_strike_ids, ids_to_remove, todo, ids_to_create, sent, calls,
          known0, swapped, prev, sameResp, last, lastFetch, lastOkIds,
          entities>>

\* ------------------------------------------------------------- helpers

\* positions between the await of line 109 and the return of async_update
SyncPcs == {"diff", "remove", "create", "swap", "return", "raise"}

\* variant: a response is processed whatever else is running
LoopAlwaysFree == TRUE

\* the event loop is free: no cycle is between its await and its return,
\* and async_init is not between its await (line 103) and line 104
LoopFree == (\A c \in Cycles : pc[c] \notin SyncPcs) /\ setup # "register"

\* no delivery of a delete signal is scheduled: the loop runs what was
\* scheduled by a broadcast before it runs anything that became ready later
NoDelivery == \A e \in BagToSet(entities) : e.pend = 0

\* variant: the raw distance is handed on without the division
KmUnconverted(raw) == [km |-> raw, thousandths |-> 0]

\* strike["distance"] / 1000.0 : kilometres and thousandths of a kilometre
Km(raw) == [km |-> raw \div 1000, thousandths |-> raw % 1000]

\* MetLightningEvent(distance, latitude, longitude, strike_id, date): the
\* fields the object keeps
MetLightningEvent(distance, strike_id) ==
    [id |-> strike_id, distance |-> distance]

\* the distance property of MetLightningEvent
Distance(ev) == ev.distance

\* the events list built by the loop of _create_events
Events(ids, snapshot) ==
    {MetLightningEvent(Km(snapshot[i].distance), i) : i \in ids}

\* what the host keeps of the entities handed to async_add_entities, as a
\* bag: not yet attached, no delivery of the delete signal scheduled
Registered(events) ==
    SetToBag({[id |-> ev.id, st |-> "new", pend |-> 0, signalled |-> FALSE] :
                 ev \in events})

\* the number of entities of bag B that are in one of the states S
RECURSIVE Copies(_, _)
Copies(B, S) ==
    IF S = {} THEN 0
    ELSE LET e == CHOOSE x \in S : TRUE
         IN  CopiesIn(e, B) + Copies(B, S \ {e})

\* variant: the handler is connected to one channel shared by all entities
SignalledAny(e, id) ==
    [e EXCEPT !.signalled = TRUE,
              !.pend = IF e.st = "attached" THEN @ + 1 ELSE @]

\* what an entity becomes when "delete_entity_<id>" is broadcast: the
\* handler of an entity connected to that channel is scheduled to run
Signalled(e, id) ==
    IF e.id = id
       THEN [e EXCEPT !.signalled = TRUE,
                      !.pend = IF e.st = "attached" THEN @ + 1 ELSE @]
       ELSE e

\* async_dispatcher_send(hass, "delete_entity_<id>"): every handler that is
\* connected to the channel now is scheduled to run; nobody else hears it
DispatcherSend(ents, id) ==
    LET after == {Signalled(e, id) : e \in BagToSet(ents)}
    IN  [r \in after |->
            Copies(ents, {e \in BagToSet(ents) : Signalled(e, id) = r})]

\* variant: every managed identifier is signalled, fetched again or not
IdsToRemoveAll(known, new) == known

\* variant: the difference is taken the wrong way round
IdsToRemoveReversed(known, new) == new \ known

\* self._managed_strike_ids.difference(new_strike_ids)
IdsToRemove(known, new) == known \ new

\* variant: every fetched identifier is created, managed already or not
IdsToCreateAll(known, new) == new

\* new_strike_ids.difference(self._managed_strike_ids)
IdsToCreate(known, new) == new \ known

\* variant: async_add_entities is called inside the loop, once per event
RECURSIVE BatchesPerEvent(_)
BatchesPerEvent(events) ==
    IF events = {} THEN <<>>
    ELSE LET ev == CHOOSE x \in events : TRUE
         IN  <<{ev}>> \o BatchesPerEvent(events \ {ev})

\* line 87: the calls of async_add_entities that _create_events makes
Batches(events) == <<events>>

\* variant: the response of a cycle is dropped when a cycle that was
\* started later has already ended
StoredIdsUnlessStale(known, new) ==
    IF \E d \in Cycles : d > cur /\ pc[d] = "done" THEN known ELSE new

\* variant: the fetched identifiers are added to the managed ones
StoredIdsUnion(known, new) == known \cup new

\* line 123: the value stored in _managed_strike_ids
StoredIds(known, new) == new

\* variant: the snapshot is emptied when the fetch fails
SnapshotClearedOnFailure(old) == EmptyMap

\* line 109: _strikes after an await that raised (the assignment never runs)
SnapshotOnFailure(old) == old

\* variant: line 123 is executed before _remove_events
AfterSwapFirst(p) ==
    CASE p = "diff" -> "swap"
      [] p = "swap" -> "remove"
      [] p = "remove" -> "create"
      [] p = "create" -> "return"

\* the statement order of async_update after the await: diff (113-115),
\* _remove_events (116), ids_to_create and _create_events (119-120),
\* the assignment of line 123, return
After(p) ==
    CASE p = "diff" -> "remove"
      [] p = "remove" -> "create"
      [] p = "create" -> "swap"
      [] p = "swap" -> "return"

\* ----------------------------------------------------------------- Init
Init ==
    /\ radius \in Radii
    /\ setup = "entry"
    /\ timer = FALSE
    /\ torn = FALSE
    /\ managed = {}
    /\ strikes = EmptyMap
    /\ pc = [c \in Cycles |-> "idle"]
    /\ cur = 0
    /\ new_strike_ids = {}
    /\ ids_to_remove = {}
    /\ todo = {}
    /\ ids_to_create = {}
    /\ sent = {}
    /\ calls = <<>>
    /\ known0 = {}
    /\ swapped = FALSE
    /\ prev = "none"
    /\ sameResp = FALSE
    /\ last = "none"
    /\ lastFetch = EmptyMap
    /\ lastOkIds = {}
    /\ entities = EmptyBag

\* -------------------------------------------------------------- actions

\* variant: only a negative radius disables the platform
DisabledIfNegative(r) == r < 0

\* line 40: entry.data[CONF_RADIUS] <= 0
Disabled(r) == r <= 0

\* async_setup_entry with radius <= 0: early return, nothing is built
SetupDisabled ==
    /\ setup = "entry"
    /\ Disabled(radius)
    /\ setup' = "disabled"
    /\ UNCHANGED <<radius, torn, timer, mgrVars, pc, cur, localVars,
                   traceVars, histVars, entities>>

\* variant: async_init registers the timer before its immediate cycle
SetupEntryTimerFirst ==
    /\ setup = "entry"
    /\ ~Disabled(radius)
    /\ setup' = "init"
    /\ timer' = TRUE
    /\ managed' = {}
    /\ strikes' = EmptyMap
    /\ pc' = [pc EXCEPT ![1] = "fetch"]
    /\ UNCHANGED <<radius, torn, cur, localVars, traceVars, histVars, entities>>

\* async_setup_entry with radius > 0: the manager is constructed and
\* async_init starts the immediate cycle (line 103), which suspends at the
\* await of line 109
SetupEntry ==
    /\ setup = "entry"
    /\ ~Disabled(radius)
    /\ setup' = "init"
    /\ managed' = {}
    /\ strikes' = EmptyMap
    /\ pc' = [pc EXCEPT ![1] = "fetch"]
    /\ UNCHANGED <<radius, torn, timer, cur, localVars, traceVars,
                   histVars, entities>>

\* a tick of the interval timer: update() awaits a new async_update(),
\* whatever the state of the earlier invocations
Tick(c) ==
    /\ timer
    /\ LoopFree
    /\ NoDelivery
    /\ pc[c] = "idle"
    /\ \A d \in Cycles : d < c => pc[d] # "idle"
    /\ pc' = [pc EXCEPT ![c] = "fetch"]
    /\ UNCHANGED <<setupVars, mgrVars, cur, localVars, traceVars,
                   histVars, entities>>

\* the frame of the cycle that resumes from the await of line 109
Resume(c) ==
    /\ cur' = c
    /\ known0' = managed
    /\ swapped' = FALSE
    /\ sent' = {}
    /\ calls' = <<>>
    /\ prev' = last
    /\ new_strike_ids' = {}
    /\ ids_to_remove' = {}
    /\ todo' = {}
    /\ ids_to_create' = {}

\* line 109: within_radius raises; nothing catches it, async_update is
\* about to raise to its caller with _strikes never assigned
FetchFail(c) ==
    /\ LoopFree
    /\ NoDelivery
    /\ pc[c] = "fetch"
    /\ Resume(c)
    /\ sameResp' = FALSE
    /\ pc' = [pc EXCEPT ![c] = "raise"]
    /\ last' = "fetch_error"
    /\ strikes' = SnapshotOnFailure(strikes)
    /\ UNCHANGED <<setupVars, managed, lastFetch, lastOkIds, entities>>

\* line 109: within_radius returns resp, which is assigned to _strikes
FetchOk(c, resp) ==
    /\ LoopFree
    /\ NoDelivery
    /\ pc[c] = "fetch"
    /\ Resume(c)
    /\ sameResp' = (resp = strikes)
    /\ strikes' = resp
    /\ lastFetch' = resp
    /\ pc' = [pc EXCEPT ![c] = "diff"]
    /\ UNCHANGED <<setupVars, managed, last, lastOkIds, entities>>

\* lines 113-115: new_strike_ids and ids_to_remove
Diff(c) ==
    /\ pc[c] = "diff"
    /\ new_strike_ids' = DOMAIN strikes
    /\ ids_to_remove' = IdsToRemove(managed, DOMAIN strikes)
    /\ todo' = IdsToRemove(managed, DOMAIN strikes)
    /\ pc' = [pc EXCEPT ![c] = After("diff")]
    /\ UNCHANGED <<setupVars, mgrVars, cur, ids_to_create, traceVars,
                   histVars, entities>>

\* lines 93-94: one iteration of the loop of _remove_events, in any order
SendDelete(c, id) ==
    /\ pc[c] = "remove"
    /\ id \in todo
    /\ todo' = todo \ {id}
    /\ sent' = sent \cup {id}
    /\ entities' = DispatcherSend(entities, id)
    /\ UNCHANGED <<setupVars, mgrVars, pc, cur, new_strike_ids,
                   ids_to_remove, ids_to_create, calls, known0, swapped,
                   prev, sameResp, histVars>>

\* line 119: the loop of _remove_events is over, ids_to_create is computed
RemoveDone(c) ==
    /\ pc[c] = "remove"
    /\ todo = {}
    /\ ids_to_create' = IdsToCreate(managed, new_strike_ids)
    /\ pc' = [pc EXCEPT ![c] = After("remove")]
    /\ UNCHANGED <<setupVars, mgrVars, cur, new_strike_ids, ids_to_remove,
                   todo, traceVars, histVars, entities>>

\* lines 72-87 (line 120): the events are built from _strikes and handed
\* to async_add_entities in one call, which registers them with the host
CreateEvents(c) ==
    /\ pc[c] = "create"
    /\ calls' = calls \o Batches(Events(ids_to_create, strikes))
    /\ entities' = entities (+) Registered(Events(ids_to_create, strikes))
    /\ pc' = [pc EXCEPT ![c] = After("create")]
    /\ UNCHANGED <<setupVars, mgrVars, cur, localVars, sent, known0,
                   swapped, prev, sameResp, histVars>>

\* line 87: async_add_entities raises; nothing catches it, line 123 is
\* never reached, async_update is about to raise to its caller
CreateEventsFail(c) ==
    /\ pc[c] = "create"
    /\ calls' = calls \o Batches(Events(ids_to_create, strikes))
    /\ pc' = [pc EXCEPT ![c] = "raise"]
    /\ last' = "host_error"
    /\ UNCHANGED <<setupVars, mgrVars, cur, localVars, sent, known0,
                   swapped, prev, sameResp, lastFetch, lastOkIds, entities>>

\* line 123: _managed_strike_ids = new_strike_ids
Swap(c) ==
    /\ pc[c] = "swap"
    /\ managed' = StoredIds(managed, new_strike_ids)
    /\ swapped' = TRUE
    /\ pc' = [pc EXCEPT ![c] = After("swap")]
    /\ last' = "ok"
    /\ lastOkIds' = DOMAIN lastFetch
    /\ UNCHANGED <<setupVars, strikes, cur, localVars, sent, calls, known0,
                   prev, sameResp, lastFetch, entities>>

\* the frame of async_update is gone once it returned or raised
Unwind ==
    /\ new_strike_ids' = {}
    /\ ids_to_remove' = {}
    /\ todo' = {}
    /\ ids_to_create' = {}
    /\ cur' = 0
    /\ known0' = {}
    /\ swapped' = FALSE
    /\ sent' = {}
    /\ calls' = <<>>
    /\ prev' = "none"
    /\ sameResp' = FALSE

\* async_update returns normally; the immediate cycle returns into
\* async_init (line 103), which goes on to line 104
Return(c) ==
    /\ pc[c] = "return"
    /\ Unwind
    /\ pc' = [pc EXCEPT ![c] = "done"]
    /\ setup' = IF c = 1 THEN "register" ELSE setup
    /\ UNCHANGED <<radius, torn, timer, mgrVars, histVars, entities>>

\* async_update raises: out of the await of line 103 the exception ends
\* async_init before line 104, out of update() (line 101) it reaches the
\* host's job runner
Raise(c) ==
    /\ pc[c] = "raise"
    /\ Unwind
    /\ pc' = [pc EXCEPT ![c] = "done"]
    /\ setup' = IF c = 1 THEN "raised" ELSE setup
    /\ UNCHANGED <<radius, torn, timer, mgrVars, histVars, entities>>

\* line 104: async_track_time_interval(hass, update, DEFAULT_UPDATE_INTERVAL)
RegisterTimer ==
    /\ setup = "register"
    /\ timer' = TRUE
    /\ setup' = "running"
    /\ UNCHANGED <<radius, torn, mgrVars, pc, cur, localVars, traceVars,
                   histVars, entities>>

\* variant: the entity enters its identifier in the manager's set
AddedToHassWritesBack(e) ==
    /\ LoopFree
    /\ NoDelivery
    /\ BagIn(e, entities)
    /\ e.st = "new"
    /\ entities' = (entities (-) SetToBag({e}))
                      (+) SetToBag({[e EXCEPT !.st = "attached"]})
    /\ managed' = managed \cup {e.id}
    /\ UNCHANGED <<setupVars, strikes, pc, cur, localVars, traceVars,
                   histVars>>

\* async_added_to_hass: the host attaches the entity, which connects
\* _delete_callback to its own delete signal
AddedToHass(e) ==
    /\ LoopFree
    /\ NoDelivery
    /\ BagIn(e, entities)
    /\ e.st = "new"
    /\ entities' = (entities (-) SetToBag({e}))
                      (+) SetToBag({[e EXCEPT !.st = "attached"]})
    /\ UNCHANGED <<setupVars, mgrVars, pc, cur, localVars, traceVars,
                   histVars>>

\* _delete_callback: a scheduled delivery runs; the entity disconnects
\* from the signal (line 190) and creates the task that removes it
\* (line 191)
DeleteCallback(e) ==
    /\ LoopFree
    /\ BagIn(e, entities)
    /\ e.pend > 0
    /\ entities' = (entities (-) SetToBag({e}))
                      (+) SetToBag({[e EXCEPT !.pend = @ - 1,
                                             !.st = "removed"]})
    /\ UNCHANGED <<setupVars, mgrVars, pc, cur, localVars, traceVars,
                   histVars>>

\* the task created from self.async_remove() (line 191) runs: the host
\* drops the entity
AsyncRemove(e) ==
    /\ LoopFree
    /\ BagIn(e, entities)
    /\ e.st = "removed"
    /\ e.pend = 0
    /\ entities' = entities (-) SetToBag({e})
    /\ UNCHANGED <<setupVars, mgrVars, pc, cur, localVars, traceVars,
                   histVars>>

Next ==
    \/ SetupDisabled
    \/ SetupEntry
    \/ RegisterTimer
    \/ \E c \in Cycles : Tick(c)
    \/ \E c \in Cycles : FetchFail(c)
    \/ \E c \in Cycles : \E resp \in Responses : FetchOk(c, resp)
    \/ \E c \in Cycles : Diff(c)
    \/ \E c \in Cycles : \E id \in StrikeIds : SendDelete(c, id)
    \/ \E c \in Cycles : RemoveDone(c)
    \/ \E c \in Cycles : CreateEvents(c)
    \/ \E c \in Cycles : CreateEventsFail(c)
    \/ \E c \in Cycles : Swap(c)
    \/ \E c \in Cycles : Return(c)
    \/ \E c \in Cycles : Raise(c)
    \/ \E e \in BagToSet(entities) : AddedToHass(e)
    \/ \E e \in BagToSet(entities) : DeleteCallback(e)
    \/ \E e \in BagToSet(entities) : AsyncRemove(e)

Spec == Init /\ [][Next]_vars

\* the host tears the platform down: the module has no unload hook and
\* line 104 drops the handle that cancels the timer, so nothing of the
\* manager changes
Teardown ==
    /\ setup = "running"
    /\ LoopFree
    /\ ~torn
    /\ torn' = TRUE
    /\ UNCHANGED <<radius, setup, timer, mgrVars, pc, cur, localVars,
                   traceVars, histVars, entities>>

NextTeardown == Next \/ Teardown

\* the platform with a host that may tear it down
SpecTeardown == Init /\ [][NextTeardown]_vars

\* ---------------------------------------------------------------- claims

\* the identifiers of the events of one batch
BatchIds(batch) == {ev.id : ev \in batch}

\* the cycle cur got its response and has executed _create_events
Created ==
    /\ cur # 0
    /\ \/ pc[cur] \in {"swap", "return"}
       \/ pc[cur] = "raise" /\ last = "host_error"

\* C1: once a cycle has returned normally, and until the next response is
\* processed, _managed_strike_ids is exactly the identifier set of the last
\* fetch that succeeded, whatever cycles succeeded or failed before.
C1_KnownIdsAreLastFetch ==
    (last = "ok" /\ \A c \in Cycles : pc[c] \notin (SyncPcs \ {"return"}))
        => managed = DOMAIN lastFetch

\* C1 witness: the second cycle has returned normally after a fetch of two
\* identifiers, and both are managed.
C1_Witness ==
    /\ LoopFree
    /\ last = "ok"
    /\ pc[2] = "done"
    /\ managed = {1, 2}
    /\ DOMAIN lastFetch = {1, 2}

\* C2: in every cycle whose fetch succeeded, only identifiers of
\* known - new are signalled, and once _create_events has run exactly the
\* identifiers of known - new have been signalled and exactly those of
\* new - known have an event in the batch (known is the value
\* _managed_strike_ids had when the response arrived).
C2_DiffIsExact ==
    cur # 0 =>
        /\ sent \subseteq known0 \ DOMAIN lastFetch
        /\ \A i \in 1..Len(calls) :
               BatchIds(calls[i]) \subseteq DOMAIN lastFetch \ known0
        /\ Created =>
               /\ sent = known0 \ DOMAIN lastFetch
               /\ UNION {BatchIds(calls[i]) : i \in 1..Len(calls)}
                      = DOMAIN lastFetch \ known0

\* C2 witness: the third fetch of {1}, {1,2}, {2}: identifier 1 was
\* signalled, nothing was created, and {2} is managed.
C2_Witness ==
    /\ cur = 3
    /\ pc[3] = "return"
    /\ known0 = {1, 2}
    /\ DOMAIN lastFetch = {2}
    /\ sent = {1}
    /\ calls = <<{}>>
    /\ managed = {2}

\* C3: a cycle whose fetch fails changes neither _managed_strike_ids nor
\* _strikes nor the host's entities, computes no diff, broadcasts nothing and
\* never calls async_add_entities; a cycle whose fetch succeeds diffs
\* against the identifiers stored by the last cycle that returned normally.
C3_FailureIsolation ==
    [][ /\ \A c \in Cycles :
             (pc[c] = "fetch" /\ pc'[c] = "raise") =>
                 /\ managed' = managed
                 /\ strikes' = strikes
                 /\ entities' = entities
                 /\ sent' = {} /\ calls' = <<>>
                 /\ new_strike_ids' = {} /\ ids_to_remove' = {}
                 /\ ids_to_create' = {}
        /\ \A c \in Cycles :
             (pc[c] = "raise" /\ last = "fetch_error") =>
                 /\ managed' = managed
                 /\ strikes' = strikes
                 /\ entities' = entities
                 /\ sent = {} /\ calls = <<>>
        /\ \A c \in Cycles :
             (pc[c] = "diff" /\ pc'[c] # "diff") =>
                 ids_to_remove' = lastOkIds \ DOMAIN lastFetch
        /\ \A c \in Cycles :
             (pc[c] = "remove" /\ pc'[c] # "remove") =>
                 ids_to_create' = DOMAIN lastFetch \ lastOkIds
      ]_vars

\* C3 witness: {1} was managed, the next fetch failed, and the cycle after
\* it fetched {2}: it removes {1} and creates {2}.
C3_Witness ==
    /\ cur = 3
    /\ prev = "fetch_error"
    /\ pc[3] = "swap"
    /\ known0 = {1}
    /\ DOMAIN strikes = {2}
    /\ ids_to_remove = {1}
    /\ sent = {1}
    /\ ids_to_create = {2}

\* C4 (as claimed): a fetch failure is never raised out of a cycle to its
\* caller, and it never keeps async_init from registering the timer.
C4_FetchFailureNotRaised ==
    /\ \A c \in Cycles : ~(pc[c] = "raise" /\ last = "fetch_error")
    /\ ~(setup = "raised" /\ last = "fetch_error")

\* C5 (as claimed): a cycle that ends has either done all of broadcast,
\* batched creation and swap, or none of them and not replaced the snapshot:
\* only a failed fetch ends a cycle without the swap.
C5_AllOrNothing ==
    \A c \in Cycles :
        pc[c] = "raise" =>
            /\ last = "fetch_error"
            /\ sent = {}
            /\ calls = <<>>

\* C6 (as claimed): at most one cycle is in flight, awaiting its fetch or
\* processing its response.
C6_SingleFlight ==
    Cardinality({c \in Cycles : pc[c] \in SyncPcs \cup {"fetch"}}) <= 1

\* C6 (amended): at most one cycle at a time is past its fetch, and until
\* that cycle executes line 123 _managed_strike_ids keeps the value the
\* cycle found when its response arrived.
C6_OneCyclePastFetch ==
    /\ Cardinality({c \in Cycles : pc[c] \in SyncPcs}) <= 1
    /\ \A c \in Cycles : pc[c] \in SyncPcs => cur = c
    /\ (cur # 0 /\ ~swapped) => managed = known0

\* C6 witness: one cycle processes its response while the fetch of another
\* one is outstanding.
C6_Witness ==
    \E c, d \in Cycles :
        /\ pc[c] = "fetch"
        /\ pc[d] = "create"
        /\ sent # {}

\* C7 (as claimed): the delete signal sent for an identifier reaches every
\* entity created for it: an entity whose signal was broadcast is scheduled
\* to run _delete_callback or has been removed.
C7_SignalReachesRecord ==
    \A e \in BagToSet(entities) :
        e.signalled => (e.pend > 0 \/ e.st = "removed")

\* C8: a cycle whose response is identical to the response of the cycle that
\* returned normally just before it signals nothing, creates nothing and
\* leaves _managed_strike_ids unchanged.
C8_Idempotent ==
    (cur # 0 /\ prev = "ok" /\ sameResp) =>
        /\ sent = {}
        /\ \A i \in 1..Len(calls) : calls[i] = {}
        /\ pc[cur] # "diff" => ids_to_remove = {}
        /\ pc[cur] \in {"swap", "return"} => ids_to_create = {}
        /\ managed = known0

\* C8 witness: the second of two cycles with the same response of two
\* strikes has returned.
C8_Witness ==
    /\ cur # 0
    /\ prev = "ok"
    /\ sameResp
    /\ pc[cur] = "return"
    /\ calls = <<{}>>
    /\ managed = {1, 2}

\* C9: every delete signal of a cycle is broadcast before the cycle executes
\* line 123, while _managed_strike_ids still holds the value the cycle found.
C9_RemoveBeforeSwap ==
    [][ (sent' # sent /\ sent' # {}) =>
            /\ ~swapped
            /\ ~swapped'
            /\ managed = known0
            /\ managed' = managed ]_vars

\* C9 witness: a cycle that signalled two identifiers has executed line 123.
C9_Witness ==
    /\ cur # 0
    /\ swapped
    /\ Cardinality(sent) = 2
    /\ managed # known0

\* C10: a cycle never calls async_add_entities more than once; once
\* _create_events has run it has called it exactly once, with one event per
\* identifier of new - known, each carrying the distance of that identifier
\* in the response of the same cycle (an empty batch when nothing is new).
C10_OneBatchPerCycle ==
    /\ Len(calls) <= 1
    /\ Created =>
           /\ Len(calls) = 1
           /\ calls[1] = {[id |-> i, distance |-> Km(lastFetch[i].distance)] :
                             i \in DOMAIN lastFetch \ known0}
           /\ Cardinality(calls[1]) = Cardinality(DOMAIN lastFetch \ known0)

\* C10 witness: a later cycle fetched two strikes, one of them managed
\* already, and made one call with the one new event.
C10_Witness ==
    /\ Created
    /\ cur > 1
    /\ known0 # {}
    /\ known0 \subseteq DOMAIN lastFetch
    /\ Len(calls) = 1
    /\ Cardinality(calls[1]) = 1

\* C11: async_init starts exactly one immediate cycle, the timer is
\* registered only once that cycle has returned and before any other cycle
\* exists, and afterwards every tick starts exactly one cycle.
C11_InitThenTimer ==
    [][ /\ (timer' /\ ~timer) =>
               /\ pc[1] = "done"
               /\ setup = "register"
               /\ \A c \in Cycles \ {1} : pc[c] = "idle"
        /\ timer => timer'
        /\ (pc[1] = "idle" /\ pc'[1] # "idle") =>
               (setup = "entry" /\ setup' = "init" /\ pc'[1] = "fetch")
        /\ pc[1] # "idle" => pc'[1] # "idle"
        /\ Cardinality({c \in Cycles : pc[c] = "idle" /\ pc'[c] # "idle"}) <= 1
        /\ \A c \in Cycles \ {1} :
               (pc[c] = "idle" /\ pc'[c] # "idle") =>
                   (timer /\ pc[1] = "done" /\ pc'[c] = "fetch")
      ]_vars

\* C11 witness: the timer is registered, the immediate cycle is over and a
\* tick has started the second cycle, the third not yet.
C11_Witness ==
    /\ timer
    /\ pc[1] = "done"
    /\ pc[2] = "fetch"
    /\ pc[3] = "idle"

\* C13: with a radius <= 0 no manager is constructed: no cycle ever starts,
\* no timer is registered, nothing is fetched, signalled or created.
C13_DisabledRadius ==
    radius <= 0 =>
        /\ setup \in {"entry", "disabled"}
        /\ ~timer
        /\ \A c \in Cycles : pc[c] = "idle"
        /\ cur = 0
        /\ managed = {} /\ strikes = EmptyMap /\ lastFetch = EmptyMap
        /\ sent = {} /\ calls = <<>>
        /\ entities = EmptyBag

\* C13 witness: setup returned early for the radius 0.
C13_Witness ==
    /\ radius = 0
    /\ setup = "disabled"

\* C14: in every cycle ids_to_create and ids_to_remove are disjoint, and
\* ids_to_create with the known identifiers that are not removed is exactly
\* the fetched identifier set.
C14_Disjoint ==
    Created =>
        /\ ids_to_create \cap ids_to_remove = {}
        /\ ids_to_create \cup (known0 \ ids_to_remove) = DOMAIN lastFetch

\* C14 witness: a cycle that both removes and creates.
C14_Witness ==
    /\ Created
    /\ ids_to_create # {}
    /\ ids_to_remove # {}

\* C15: the distance of every event handed to the host is the raw distance
\* of its strike in the fetched response divided by 1000: raw 12345 is
\* 12 kilometres and 345 thousandths.
C15_UnitConversion ==
    \A n \in 1..Len(calls) : \A ev \in calls[n] :
        /\ ev.id \in DOMAIN lastFetch
        /\ Distance(ev).thousandths \in 0..999
        /\ 1000 * Distance(ev).km + Distance(ev).thousandths
               = lastFetch[ev.id].distance
        /\ lastFetch[ev.id].distance = 12345 =>
               Distance(ev) = [km |-> 12, thousandths |-> 345]

\* C15 witness: an event was built from a strike of raw distance 12345.
C15_Witness ==
    /\ Len(calls) = 1
    /\ \E ev \in calls[1] :
           /\ lastFetch[ev.id].distance = 12345
           /\ Distance(ev) = [km |-> 12, thousandths |-> 345]

C12_QuietAfterTeardown ==
    [][ torn' =>
            /\ ~timer'
            /\ torn =>
                   /\ managed' = managed
                   /\ strikes' = strikes
                   /\ sent' \subseteq sent
                   /\ Len(calls') <= Len(calls)
                   /\ \A c \in Cycles : pc[c] = "idle" => pc'[c] = "idle"
      ]_vars

\* C17: _managed_strike_ids is changed only by line 123 of a cycle and
\* _strikes only by the assignment of line 109; attaching an entity, its
\* _delete_callback and its removal change neither.
C17_OnlyCyclesWrite ==
    [][ /\ managed' # managed =>
               \E c \in Cycles : pc[c] = "swap" /\ pc'[c] = "return"
        /\ strikes' # strikes =>
               \E c \in Cycles : pc[c] = "fetch" /\ pc'[c] = "diff"
        /\ (entities' # entities /\ pc' = pc) =>
               (managed' = managed /\ strikes' = strikes)
      ]_vars

\* C17 witness: with a managed identifier and a snapshot in place, one
\* entity is attached and another has run its callback.
C17_Witness ==
    /\ LoopFree
    /\ managed # {}
    /\ strikes # EmptyMap
    /\ \E e, f \in BagToSet(entities) :
           e.st = "attached" /\ f.st = "removed"

\* C18: at most one cycle is past its await; it diffs against the value
\* _managed_strike_ids has when its own response arrives; and when it
\* returns, _managed_strike_ids is the identifier set of its response, the
\* one processed last, also when a cycle started later has ended before.
C18_LastWriteWins ==
    /\ Cardinality({c \in Cycles : pc[c] \in SyncPcs}) <= 1
    /\ \A c \in Cycles :
           pc[c] \in {"remove", "create", "swap"} =>
               /\ cur = c
               /\ known0 = managed
               /\ ids_to_remove = managed \ DOMAIN lastFetch
    /\ \A c \in Cycles :
           pc[c] = "return" =>
               /\ cur = c
               /\ managed = DOMAIN lastFetch
               /\ managed = new_strike_ids

\* C18 witness: the third cycle has ended, the second one, started before
\* it, has processed its response after it and replaced the stored set.
C18_Witness ==
    /\ cur = 2
    /\ pc[2] = "return"
    /\ pc[3] = "done"
    /\ managed # known0

\* C19 (as claimed): between cycles every identifier of _managed_strike_ids
\* has exactly one entity whose delete signal was not broadcast, and no other
\* identifier has one.
C19_OneLiveRecordPerKnownId ==
    LoopFree =>
        \A i \in StrikeIds :
            Copies(entities, {e \in BagToSet(entities) :
                                  e.id = i /\ ~e.signalled})
                = IF i \in managed THEN 1 ELSE 0

\* C20 (as claimed): whenever no cycle is between the assignment of
\* line 109 and line 123, the keys of _strikes are _managed_strike_ids.
C20_SnapshotKeysAreKnownIds ==
    (\A c \in Cycles : pc[c] \notin {"diff", "remove", "create", "swap"})
        => DOMAIN strikes = managed

====
